---- MODULE Spec2Model ----
(***************************************************************************)
(* Itihas Explorer: the data-access layer (utils/data_fetcher.py), the     *)
(* registry (config.py) and the page script (app.py) as a state machine.   *)
(*                                                                         *)
(* State: the wall clock, the five st.cache_data caches, the page's        *)
(* current selection and panels, and observer records of the calls made.   *)
(* The Wikidata endpoint and the Wikipedia service are the environment:    *)
(* every request sees a snapshot of their content drawn from a small set,  *)
(* and the endpoint answers a query the way the query text says.           *)
(***************************************************************************)
EXTENDS Integers, Sequences, FiniteSets, TLC

VARIABLES
    clock,      \* wall clock, seconds since 1 January 00:00
    cache,      \* one cache per decorated function: arguments -> entry
    called,     \* observer: per function, arguments -> latest call in the window
    fetched,    \* observer: per function, arguments -> latest call that reached the service
    last,       \* observer: the latest call of a fetch function
    ncalls,     \* calls and page runs made so far
    selection,  \* app.py: the sidebar's language and region
    panels      \* app.py: what the latest run of the page rendered

vars == <<clock, cache, called, fetched, last, ncalls, selection, panels>>

----------------------------------------------------------------------------
(* Bounds of the model *)

MaxTicks == 2       \* clock advances in a behaviour
MaxCalls == 3       \* fetch calls in a behaviour
MaxRuns == 2        \* page runs in a behaviour
MaxWikiCalls == 2   \* encyclopedia calls in a behaviour
MaxTail == 3        \* characters of a page summary after its fixed prefix

(* Program constants *)

TTL == 3600             \* @st.cache_data(ttl=3600)
WordCap == 100          \* split(' ')[:100]
EntityLimit == 1        \* LIMIT 1
OnThisDayLimit == 5     \* LIMIT 5
TimelineLimit == 25     \* LIMIT 25

SecondsPerDay == 24 * 3600
TickSeconds == TTL \div 2
\* 23 January, 23:00
StartClock == 22 * SecondsPerDay + 23 * 3600

----------------------------------------------------------------------------
(* Generic helpers *)

Put(f, k, v) == [x \in DOMAIN f \cup {k} |-> IF x = k THEN v ELSE f[x]]

Restrict(f, S) == [x \in S |-> f[x]]

Take(s, n) == IF Len(s) <= n THEN s ELSE SubSeq(s, 1, n)

Last(s) == s[Len(s)]

RECURSIVE Split(_, _)
\* str.split(sep): the pieces between the occurrences of sep, always at least
\* one piece; computed by halving, the piece across the cut being glued back
Split(s, sep) ==
    IF Len(s) = 0 THEN << <<>> >>
    ELSE IF Len(s) = 1 THEN (IF s[1] = sep THEN << <<>>, <<>> >> ELSE <<s>>)
    ELSE LET h == Len(s) \div 2
             l == Split(SubSeq(s, 1, h), sep)
             r == Split(SubSeq(s, h + 1, Len(s)), sep)
         IN SubSeq(l, 1, Len(l) - 1) \o << l[Len(l)] \o r[1] >> \o Tail(r)

RECURSIVE Join(_, _)
\* sep.join(pieces)
Join(pieces, sep) ==
    IF Len(pieces) = 0 THEN <<>>
    ELSE IF Len(pieces) = 1 THEN pieces[1]
    ELSE LET h == Len(pieces) \div 2
         IN Join(SubSeq(pieces, 1, h), sep) \o <<sep>>
                \o Join(SubSeq(pieces, h + 1, Len(pieces)), sep)

\* dict.get(name, {}).get('value', default) on one row of bindings
Get(row, name, default) == IF name \in DOMAIN row THEN row[name] ELSE default

----------------------------------------------------------------------------
(* config.py *)

LANGUAGES == [English |-> "en", Hindi |-> "hi"]

REGIONS ==
    [Karnataka   |-> [q_code |-> "Q1185", featured_figure |-> "Q3349636",
                      featured_monument |-> "Q34998"],
     Maharashtra |-> [q_code |-> "Q1191", featured_figure |-> "Q43416",
                      featured_monument |-> "Q11438"]]

LanguageNames == DOMAIN LANGUAGES
RegionNames == DOMAIN REGIONS
LangCodes == {LANGUAGES[n] : n \in LanguageNames}

----------------------------------------------------------------------------
(* datetime *)

MonthLengths == <<31, 28, 31, 30, 31, 30, 31, 31, 30, 31, 30, 31>>

MonthNames == <<"January", "February", "March", "April", "May", "June", "July",
                "August", "September", "October", "November", "December">>

RECURSIVE MonthDayFrom(_, _)
\* month and day of the day-of-year d (0-based), counting from month m
MonthDayFrom(d, m) ==
    IF d < MonthLengths[m] THEN [month |-> m, day |-> d + 1]
    ELSE MonthDayFrom(d - MonthLengths[m], m + 1)

\* datetime.datetime.now(): the month and day the clock is in
Now(t) == MonthDayFrom((t \div SecondsPerDay) % 365, 1)

\* An xsd:dateTime literal as the endpoint writes it, "[-]YYYY-MM-DDT00:00:00Z"
IsoLiteral(sign, y, m, d) ==
    [sign |-> sign, year |-> y, month |-> m, day |-> d, z |-> TRUE]

\* date_str.replace('Z', '')
ReplaceZ(s) == [s EXCEPT !.z = FALSE]

ValueError == [kind |-> "raise", exc |-> "ValueError"]

\* datetime.datetime.fromisoformat: four-digit unsigned years only, no zone letter
FromIsoformat(s) ==
    IF s.sign = "-" \/ s.z \/ s.year < 1 \/ s.year > 9999 THEN ValueError
    ELSE [kind |-> "datetime", year |-> s.year, month |-> s.month, day |-> s.day]

\* strftime('%d %B %Y')
Strftime(dt) == <<dt.day, MonthNames[dt.month], dt.year>>

----------------------------------------------------------------------------
(* The Wikidata endpoint: what it holds when a request arrives, and the rows
   it answers each of the three queries with *)

Entities ==
    {REGIONS[r].featured_figure : r \in RegionNames}
        \cup {REGIONS[r].featured_monument : r \in RegionNames}

RegionCodes == {REGIONS[r].q_code : r \in RegionNames}

\* rdfs:label of the featured entities, per language
LabelText ==
    [c \in Entities |->
        CASE c = "Q3349636" -> [en |-> "Krishnadevaraya", hi |-> "Krishnadevaraya (hi)"]
          [] c = "Q34998"   -> [en |-> "Hampi", hi |-> "Hampi (hi)"]
          [] c = "Q43416"   -> [en |-> "Shivaji", hi |-> "Shivaji (hi)"]
          [] OTHER          -> [en |-> "Ajanta Caves", hi |-> "Ajanta (hi)"]]

DescriptionText == [en |-> "description (en)", hi |-> "description (hi)"]

LangChars == [en |-> <<"e", "n">>, hi |-> <<"h", "i">>]

\* Page titles an article can have; a title may hold and may end with "/"
Titles == {<<"H", "a", "m", "p", "i">>, <<"K", "/">>}

\* The arguments the fetch functions are called with: a featured figure, a
\* configured region and an identifier that is in no registry entry
EntityArgs == {<<REGIONS.Karnataka.featured_figure, l>> : l \in LangCodes}
OnThisDayArgs == {<<REGIONS.Karnataka.q_code, "en">>}
TimelineArgs == {<<REGIONS.Karnataka.q_code, "en">>, <<"Q42", "en">>}
WikiArgs == {<<t, "en">> : t \in {<<>>, <<"H", "a", "m", "p", "i">>}}

\* The article IRI of a sitelink: https://{lang}.wikipedia.org/wiki/{title}
ArticleUrl(lang, title) ==
    <<"h", "t", "t", "p", "s", ":", "/", "/">> \o LangChars[lang]
        \o <<".", "w", "i", "k", "i", "p", "e", "d", "i", "a", ".", "o", "r", "g",
             "/", "w", "i", "k", "i", "/">>
        \o title

\* Dated events the endpoint may hold
Events ==
    << [label |-> [en |-> "Battle of Talikota", hi |-> "Talikota (hi)"],
        description |-> {"en", "hi"}, region |-> "Q1185", inIndia |-> TRUE,
        historical |-> TRUE, date |-> IsoLiteral("", 1565, 1, 23)],
       [label |-> [en |-> "Siege of Raichur"],
        description |-> {}, region |-> "Q1185", inIndia |-> TRUE,
        historical |-> TRUE, date |-> IsoLiteral("", 1520, 1, 24)],
       [label |-> [en |-> "Conquest of Banavasi", hi |-> "Banavasi (hi)"],
        description |-> {"en"}, region |-> "Q1185", inIndia |-> TRUE,
        historical |-> TRUE, date |-> IsoLiteral("-", 261, 1, 23)],
       [label |-> [en |-> "Battle of Koregaon", hi |-> "Koregaon (hi)"],
        description |-> {"en"}, region |-> "Q1191", inIndia |-> TRUE,
        historical |-> TRUE, date |-> IsoLiteral("", 1818, 1, 23)] >>

EventIds == 1..Len(Events)

NoArticles == [l \in LangCodes |-> <<>>]

\* What the endpoint holds about the entity asked for: the languages it has a
\* label and a description in, and the title of its article per language
EntityFacts ==
    { [labels |-> {}, descriptions |-> {"en"}, articles |-> NoArticles],
      [labels |-> {"hi"}, descriptions |-> {"hi"},
       articles |-> [NoArticles EXCEPT !["hi"] = <<"H", "a", "m", "p", "i">>]],
      [labels |-> {"en", "hi"}, descriptions |-> {}, articles |-> NoArticles],
      [labels |-> {"en"}, descriptions |-> {"en"},
       articles |-> [NoArticles EXCEPT !["en"] = <<"H", "a", "m", "p", "i">>]],
      [labels |-> {"en", "hi"}, descriptions |-> {"en", "hi"},
       articles |-> [en |-> <<"K", "/">>, hi |-> <<"H", "a", "m", "p", "i">>]] }

NoFacts == [labels |-> {}, descriptions |-> {}, articles |-> NoArticles]

\* The sets of events the endpoint may hold when a request arrives
EventSets == {{}, {1, 2}, {1, 2, 3}, {2, 4}}

\* A snapshot of the endpoint's content: facts of one entity, and the events held
EntitySnapshots == {[entity |-> f, events |-> {}] : f \in EntityFacts}
EventSnapshots == {[entity |-> NoFacts, events |-> S] : S \in EventSets}

\* Chronological key of an xsd:dateTime literal
DateKey(lit) ==
    IF lit.sign = "-" THEN (0 - lit.year) * 10000 + lit.month * 100 + lit.day
    ELSE lit.year * 10000 + lit.month * 100 + lit.day

RECURSIVE InIdOrder(_)
\* the events of S in the order the endpoint stores them
InIdOrder(S) ==
    IF S = {} THEN <<>>
    ELSE LET i == CHOOSE x \in S : \A y \in S : x <= y
         IN <<i>> \o InIdOrder(S \ {i})

RECURSIVE SeqOf(_)
\* the elements of a finite set, one after the other
SeqOf(S) ==
    IF S = {} THEN <<>>
    ELSE LET x == CHOOSE y \in S : TRUE IN <<x>> \o SeqOf(S \ {x})

RECURSIVE OrderByDate(_)
\* ORDER BY ?date
OrderByDate(S) ==
    IF S = {} THEN <<>>
    ELSE LET i == CHOOSE x \in S : \A y \in S :
                      \/ DateKey(Events[x].date) < DateKey(Events[y].date)
                      \/ DateKey(Events[x].date) = DateKey(Events[y].date) /\ x <= y
         IN <<i>> \o OrderByDate(S \ {i})

\* SERVICE wikibase:label, language "{lang_code},en"
ServiceLabel(e, lang) == IF lang \in DOMAIN e.label THEN e.label[lang] ELSE e.label["en"]

\* One row of bindings: the variables in names that are bound, with their values
Row(names, values) == [n \in names |-> values[n]]

\* The three query texts, as the values interpolated into them
EntityQuery(entity_q_code, lang_code) ==
    [kind |-> "entity", code |-> entity_q_code, lang |-> lang_code, month |-> 0, day |-> 0]

OnThisDayQuery(region_q_code, lang_code, month, day) ==
    [kind |-> "onthisday", code |-> region_q_code, lang |-> lang_code,
     month |-> month, day |-> day]

TimelineQuery(region_q_code, lang_code) ==
    [kind |-> "timeline", code |-> region_q_code, lang |-> lang_code, month |-> 0, day |-> 0]

\* a faulty variant: the label pattern without its language filter
LabelNoFilter(facts, lang) == facts.labels

\* ?item rdfs:label ?label . FILTER(LANG(?label) = lang)
LabelSolutions(facts, lang) == {l \in facts.labels : l = lang}

\* SELECT ?label ?description ?article ... LIMIT 1
EntityRows(q, wd) ==
    LET f == wd.entity
        row(l) ==
            Row({"label"}
                  \cup (IF q.lang \in f.descriptions THEN {"description"} ELSE {})
                  \cup (IF f.articles[q.lang] # <<>> THEN {"article"} ELSE {}),
                [label |-> LabelText[q.code][l],
                 description |-> DescriptionText[q.lang],
                 article |-> ArticleUrl(q.lang, f.articles[q.lang])])
    IN LET sol == SeqOf(LabelSolutions(f, q.lang))
       IN Take([i \in 1..Len(sol) |-> row(sol[i])], EntityLimit)

\* FILTER(MONTH(?date) = {month} && DAY(?date) = {day})
MonthDayFilter(q, e) == e.date.month = q.month /\ e.date.day = q.day

\* SELECT ?eventLabel ?date ... LIMIT 5 (no ORDER BY: the endpoint's own order)
OnThisDayRows(q, wd) ==
    LET sol == InIdOrder({i \in wd.events :
                    /\ Events[i].inIndia
                    /\ Events[i].region = q.code
                    /\ MonthDayFilter(q, Events[i])})
    IN Take([i \in 1..Len(sol) |->
                Row({"eventLabel", "date"},
                    [eventLabel |-> ServiceLabel(Events[sol[i]], q.lang),
                     date |-> Events[sol[i]].date])],
            OnThisDayLimit)

\* a faulty variant: the query without ORDER BY, rows in the endpoint's own order
TimelineUnordered(S) == InIdOrder(S)

\* ORDER BY ?date
TimelineOrder(S) == OrderByDate(S)

\* SELECT ?eventLabel ?eventDescription ?date ... ORDER BY ?date LIMIT 25
TimelineRows(q, wd) ==
    LET sol == TimelineOrder({i \in wd.events :
                    Events[i].historical /\ Events[i].region = q.code})
    IN Take([i \in 1..Len(sol) |->
                Row({"eventLabel", "date"}
                      \cup (IF Events[sol[i]].description \cap {q.lang, "en"} # {}
                            THEN {"eventDescription"} ELSE {}),
                    [eventLabel |-> ServiceLabel(Events[sol[i]], q.lang),
                     eventDescription |->
                         IF q.lang \in Events[sol[i]].description
                         THEN DescriptionText[q.lang] ELSE DescriptionText["en"],
                     date |-> Events[sol[i]].date])],
            TimelineLimit)

\* The bindings the endpoint answers a query with
Endpoint(q, wd) ==
    CASE q.kind = "entity"    -> EntityRows(q, wd)
      [] q.kind = "onthisday" -> OnThisDayRows(q, wd)
      [] OTHER                -> TimelineRows(q, wd)

----------------------------------------------------------------------------
(* @st.cache_data(ttl=3600): one cache per decorated function, keyed on the
   call's arguments; an entry is served until TTL seconds after it was stored,
   and a call that raises stores nothing *)

FunctionNames ==
    {"run_sparql_query", "get_entity_details", "get_on_this_day_events",
     "get_timeline_events", "get_wiki_summary_and_image"}

EmptyCache == [f \in FunctionNames |-> <<>>]

\* a faulty variant: a key that leaves the language code out
KeyWithoutLanguage(args) == <<args[1]>>

\* the key of a call: every argument takes part
CacheKey(args) == args

\* a faulty variant: entries that never expire
ServedForever(m, k, now) == k \in DOMAIN m

\* the entry stored under k is still served at time now
Fresh(m, k, now) == k \in DOMAIN m /\ now < m[k].stored + TTL

\* storing drops the expired entries of that cache, then writes the new one
Store(m, k, args, v, now) ==
    Put(Restrict(m, {x \in DOMAIN m : now < m[x].stored + TTL}), k,
        [value |-> v, stored |-> now, args |-> args])

NoneValue == [kind |-> "None"]
EmptyList == [kind |-> "list", items |-> <<>>]
AttributeError == [kind |-> "raise", exc |-> "AttributeError"]
RequestException == [kind |-> "raise", exc |-> "RequestException"]

Raised(r) == r.kind = "raise"

----------------------------------------------------------------------------
(* utils/data_fetcher.py: the knowledge-graph functions *)

Network == {"up", "down"}

\* requests.get(...).json(), or None when the request raises RequestException
HttpGet(query, net, wd) ==
    IF net = "down" THEN NoneValue
    ELSE [kind |-> "json", bindings |-> Endpoint(query, wd)]

run_sparql_query(c, query, now, net, wd) ==
    LET m == c.run_sparql_query
        k == CacheKey(<<query>>)
    IN IF Fresh(m, k, now)
       THEN [cache |-> c, data |-> m[k].value, requested |-> FALSE]
       ELSE LET data == HttpGet(query, net, wd)
            IN [cache |-> [c EXCEPT !.run_sparql_query =
                                Store(m, k, <<query>>, data, now)],
                data |-> data, requested |-> TRUE]

\* if data and data['results']['bindings']:
HasBindings(data) == data.kind = "json" /\ Len(data.bindings) > 0

NoSub == [called |-> FALSE, query |-> EntityQuery("", ""), requested |-> FALSE,
          data |-> NoneValue]

Sub(query, r) == [called |-> TRUE, query |-> query, requested |-> r.requested,
                  data |-> r.data]

\* a faulty variant: a record of placeholders where None is due
PlaceholderDetails(data) ==
    LET binding == IF HasBindings(data) THEN data.bindings[1] ELSE <<>>
    IN [kind |-> "dict",
        label |-> Get(binding, "label", "N/A"),
        description |-> Get(binding, "description", "No description available."),
        page_title |-> Last(Split(Get(binding, "article", <<>>), "/"))]

\* the record built from the first row, else None
EntityDetails(data) ==
    IF HasBindings(data)
    THEN LET binding == data.bindings[1]
         IN [kind |-> "dict",
             label |-> Get(binding, "label", "N/A"),
             description |-> Get(binding, "description", "No description available."),
             page_title |-> Last(Split(Get(binding, "article", <<>>), "/"))]
    ELSE NoneValue

get_entity_details(c, entity_q_code, lang_code, now, net, wd) ==
    LET m == c.get_entity_details
        args == <<entity_q_code, lang_code>>
        k == CacheKey(args)
    IN IF Fresh(m, k, now)
       THEN [cache |-> c, result |-> m[k].value, origin |-> m[k].args,
             requested |-> FALSE, sub |-> NoSub]
       ELSE LET query == EntityQuery(entity_q_code, lang_code)
                r == run_sparql_query(c, query, now, net, wd)
                result == EntityDetails(r.data)
            IN [cache |-> [r.cache EXCEPT !.get_entity_details =
                                Store(m, k, args, result, now)],
                result |-> result, origin |-> args, requested |-> r.requested,
                sub |-> Sub(query, r)]

HasDate(row) == "date" \in DOMAIN row

\* the (label, year) list built from the rows that carry a date
OnThisDayEvents(data) ==
    IF HasBindings(data)
    THEN LET dated == SelectSeq(data.bindings, HasDate)
             parsed(i) == FromIsoformat(ReplaceZ(dated[i].date))
         IN IF \E i \in 1..Len(dated) : Raised(parsed(i)) THEN ValueError
            ELSE [kind |-> "list",
                  items |-> [i \in 1..Len(dated) |->
                                [label |-> Get(dated[i], "eventLabel", "Event"),
                                 year |-> parsed(i).year]]]
    ELSE EmptyList

get_on_this_day_events(c, region_q_code, lang_code, now, net, wd) ==
    LET m == c.get_on_this_day_events
        args == <<region_q_code, lang_code>>
        k == CacheKey(args)
    IN IF Fresh(m, k, now)
       THEN [cache |-> c, result |-> m[k].value, origin |-> m[k].args,
             requested |-> FALSE, sub |-> NoSub]
       ELSE LET today == Now(now)
                query == OnThisDayQuery(region_q_code, lang_code, today.month, today.day)
                r == run_sparql_query(c, query, now, net, wd)
                result == OnThisDayEvents(r.data)
            IN [cache |-> IF Raised(result) THEN r.cache
                          ELSE [r.cache EXCEPT !.get_on_this_day_events =
                                    Store(m, k, args, result, now)],
                result |-> result, origin |-> args, requested |-> r.requested,
                sub |-> Sub(query, r)]

\* the (label, description, date) list built from every row
TimelineEvents(data) ==
    IF HasBindings(data)
    THEN LET rows == data.bindings
             parsed(i) == FromIsoformat(ReplaceZ(rows[i].date))
         IN IF \E i \in 1..Len(rows) :
                    /\ \A j \in 1..(i - 1) : HasDate(rows[j]) /\ ~Raised(parsed(j))
                    /\ ~HasDate(rows[i])
            THEN AttributeError
            ELSE IF \E i \in 1..Len(rows) : Raised(parsed(i)) THEN ValueError
            ELSE [kind |-> "list",
                  items |-> [i \in 1..Len(rows) |->
                                [label |-> Get(rows[i], "eventLabel", "Event"),
                                 description |->
                                     Get(rows[i], "eventDescription", "No description."),
                                 date |-> Strftime(parsed(i))]]]
    ELSE EmptyList

get_timeline_events(c, region_q_code, lang_code, now, net, wd) ==
    LET m == c.get_timeline_events
        args == <<region_q_code, lang_code>>
        k == CacheKey(args)
    IN IF Fresh(m, k, now)
       THEN [cache |-> c, result |-> m[k].value, origin |-> m[k].args,
             requested |-> FALSE, sub |-> NoSub]
       ELSE LET query == TimelineQuery(region_q_code, lang_code)
                r == run_sparql_query(c, query, now, net, wd)
                result == TimelineEvents(r.data)
            IN [cache |-> IF Raised(result) THEN r.cache
                          ELSE [r.cache EXCEPT !.get_timeline_events =
                                    Store(m, k, args, result, now)],
                result |-> result, origin |-> args, requested |-> r.requested,
                sub |-> Sub(query, r)]

----------------------------------------------------------------------------
(* utils/data_fetcher.py: the encyclopedia function *)

Text(str) == <<str>>

Marker == <<".", ".", ".">>

\* page.summary: WordCap - 2 one-letter words, then up to MaxTail more characters
SummaryPrefix == [i \in 1..(2 * (WordCap - 2)) |-> IF i % 2 = 1 THEN "w" ELSE " "]

RECURSIVE Strings(_)
Strings(n) ==
    IF n = 0 THEN {<<>>}
    ELSE LET shorter == Strings(n - 1)
         IN shorter \cup {t \o <<ch>> : t \in shorter, ch \in {"a", " "}}

Summaries == {SummaryPrefix \o t : t \in Strings(MaxTail)}

\* What the encyclopedia answers about one page: whether it exists, its summary,
\* and how each step of the image lookup ends
NoSuchPage ==
    [exists |-> FALSE, summary |-> <<>>, fullurl |-> "plain", thumbnail |-> "none",
     sections |-> "empty"]

\* Every summary with an image lookup that succeeds, and every way the image
\* lookup can end on a page whose summary is over the cap
Pages ==
    {NoSuchPage}
      \cup [exists : {TRUE}, summary : Summaries, fullurl : {"plain"},
            thumbnail : {"url"}, sections : {"empty"}]
      \cup [exists : {TRUE}, summary : {SummaryPrefix \o <<"a", " ", "a">>},
            fullurl : {"plain", "action=view", "raise"},
            thumbnail : {"url", "none", "raise"},
            sections : {"empty", "raise"}]

\* a faulty variant: the marker appended at WordCap words already
MarkerAtCap(summary) ==
    LET words == Split(summary, " ")
    IN IF Len(words) >= WordCap THEN Join(Take(words, WordCap), " ") \o Marker
       ELSE Join(Take(words, WordCap), " ")

\* ' '.join(page.summary.split(' ')[:100]), with '...' when there were more words
TruncateSummary(summary) ==
    LET words == Split(summary, " ")
    IN IF Len(words) > WordCap THEN Join(Take(words, WordCap), " ") \o Marker
       ELSE Join(Take(words, WordCap), " ")

Thumbnail == [kind |-> "str", value |-> "thumbnail"]

\* the main-image branch: hasattr(page, 'fullurl'), 'action=view', page.thumbnail
MainImage(page) ==
    CASE page.fullurl = "raise" -> RequestException
      [] page.fullurl = "plain" ->
            (CASE page.thumbnail = "raise" -> AttributeError
               [] page.thumbnail = "url"   -> Thumbnail
               [] OTHER                    -> NoneValue)
      [] OTHER -> NoneValue

\* the loop over page.sections and section.images, which never sets image_url
SectionImage(page) ==
    IF page.sections = "raise" THEN AttributeError ELSE NoneValue

ImageLookup(page) ==
    LET main == MainImage(page)
    IN IF Raised(main) \/ main # NoneValue THEN main ELSE SectionImage(page)

WikiContent(page_title, page) ==
    IF page_title = <<>>
    THEN [kind |-> "dict", summary |-> Text("No Wikipedia article found for this entry."),
          image_url |-> NoneValue]
    ELSE IF ~page.exists
    THEN [kind |-> "dict",
          summary |-> Text("The Wikipedia article '") \o page_title
                          \o Text("' does not exist in this language."),
          image_url |-> NoneValue]
    ELSE LET image_url == ImageLookup(page)
         IN IF Raised(image_url) THEN image_url
            ELSE [kind |-> "dict", summary |-> TruncateSummary(page.summary),
                  image_url |-> image_url]

get_wiki_summary_and_image(c, page_title, lang_code, now, page) ==
    LET m == c.get_wiki_summary_and_image
        args == <<page_title, lang_code>>
        k == CacheKey(args)
    IN IF Fresh(m, k, now)
       THEN [cache |-> c, result |-> m[k].value, origin |-> m[k].args,
             requested |-> FALSE, sub |-> NoSub]
       ELSE LET result == WikiContent(page_title, page)
            IN [cache |-> IF Raised(result) THEN c
                          ELSE [c EXCEPT !.get_wiki_summary_and_image =
                                    Store(m, k, args, result, now)],
                result |-> result, origin |-> args, requested |-> TRUE, sub |-> NoSub]

----------------------------------------------------------------------------
(* The state machine of single calls *)

NoPrev == [t |-> 0 - 1, result |-> NoneValue]

NoPage == [exists |-> FALSE, summary |-> <<>>, imageFailure |-> FALSE]

NoLast ==
    [fn |-> "", args |-> <<>>, t |-> 0, today |-> Now(0), result |-> NoneValue,
     origin |-> <<>>, requested |-> FALSE, net |-> "", sub |-> NoSub,
     prevCall |-> NoPrev, prevFetch |-> NoPrev, subPrevCall |-> NoPrev,
     subPrevFetch |-> NoPrev, page |-> NoPage]

NotRendered == [rendered |-> FALSE, args |-> <<>>, origin |-> <<>>, result |-> NoneValue]

NoPanels == [figure |-> NotRendered, monument |-> NotRendered,
             on_this_day |-> NotRendered, timeline |-> NotRendered]

\* the observer's records still inside the expiry window at time now
Recent(m, now) == Restrict(m, {k \in DOMAIN m : now < m[k].t + TTL})

Prev(m, k) == IF k \in DOMAIN m THEN m[k] ELSE NoPrev

\* the observer's records after a call fn(args) that ended as r at time now
Observe(log, fn, args, r, now, onlyFetches) ==
    [f \in FunctionNames |->
        IF f = fn /\ (r.requested \/ ~onlyFetches)
        THEN Put(Recent(log[f], now), args, [t |-> now, result |-> r.result])
        ELSE IF f = "run_sparql_query" /\ r.sub.called
                  /\ (r.sub.requested \/ ~onlyFetches)
        THEN Put(Recent(log[f], now), <<r.sub.query>>, [t |-> now, result |-> r.sub.data])
        ELSE Recent(log[f], now)]

Finish(fn, args, r, net, page) ==
    /\ cache' = r.cache
    /\ called' = Observe(called, fn, args, r, clock, FALSE)
    /\ fetched' = Observe(fetched, fn, args, r, clock, TRUE)
    /\ last' = [fn |-> fn, args |-> args, t |-> clock, today |-> Now(clock),
                result |-> r.result, origin |-> r.origin, requested |-> r.requested,
                net |-> IF r.requested THEN net ELSE "", sub |-> r.sub,
                prevCall |-> Prev(called[fn], args),
                prevFetch |-> Prev(fetched[fn], args),
                subPrevCall |-> IF r.sub.called
                                THEN Prev(called.run_sparql_query, <<r.sub.query>>)
                                ELSE NoPrev,
                subPrevFetch |-> IF r.sub.called
                                 THEN Prev(fetched.run_sparql_query, <<r.sub.query>>)
                                 ELSE NoPrev,
                page |-> page]
    /\ ncalls' = ncalls + 1
    /\ UNCHANGED <<clock, selection, panels>>

Init ==
    /\ clock = StartClock
    /\ cache = EmptyCache
    /\ called = EmptyCache
    /\ fetched = EmptyCache
    /\ last = NoLast
    /\ ncalls = 0
    /\ selection = [language |-> "English", region |-> "Karnataka"]
    /\ panels = NoPanels

\* time passes
Tick ==
    /\ clock < StartClock + MaxTicks * TickSeconds
    /\ clock' = clock + TickSeconds
    /\ called' = [f \in FunctionNames |-> Recent(called[f], clock')]
    /\ fetched' = [f \in FunctionNames |-> Recent(fetched[f], clock')]
    /\ UNCHANGED <<cache, last, ncalls, selection, panels>>

\* the call fn(a), whose query is q, will reach the endpoint
Reaches(fn, a, q) ==
    /\ ~Fresh(cache[fn], CacheKey(a), clock)
    /\ ~Fresh(cache.run_sparql_query, CacheKey(<<q>>), clock)

\* the states of the environment a call can meet: one only when it reads none
Met(S, reaches) == IF reaches THEN S ELSE {CHOOSE x \in S : TRUE}

EntityDetailsCall ==
    /\ ncalls < MaxCalls
    /\ \E a \in EntityArgs :
          LET reaches == Reaches("get_entity_details", a, EntityQuery(a[1], a[2]))
          IN \E net \in Met(Network, reaches), wd \in Met(EntitySnapshots, reaches) :
                Finish("get_entity_details", a,
                       get_entity_details(cache, a[1], a[2], clock, net, wd), net, NoPage)

OnThisDayCall ==
    /\ ncalls < MaxCalls
    /\ \E a \in OnThisDayArgs :
          LET reaches == Reaches("get_on_this_day_events", a,
                                 OnThisDayQuery(a[1], a[2], Now(clock).month, Now(clock).day))
          IN \E net \in Met(Network, reaches), wd \in Met(EventSnapshots, reaches) :
                Finish("get_on_this_day_events", a,
                       get_on_this_day_events(cache, a[1], a[2], clock, net, wd), net, NoPage)

TimelineCall ==
    /\ ncalls < MaxCalls
    /\ \E a \in TimelineArgs :
          LET reaches == Reaches("get_timeline_events", a, TimelineQuery(a[1], a[2]))
          IN \E net \in Met(Network, reaches), wd \in Met(EventSnapshots, reaches) :
                Finish("get_timeline_events", a,
                       get_timeline_events(cache, a[1], a[2], clock, net, wd), net, NoPage)

Next == Tick \/ EntityDetailsCall \/ OnThisDayCall \/ TimelineCall

Spec == Init /\ [][Next]_vars

\* what the observer keeps of the page a computed call saw
Seen(r, page_title, page) ==
    IF r.requested /\ page_title # <<>> /\ page.exists
    THEN [exists |-> TRUE, summary |-> page.summary,
          imageFailure |-> Raised(ImageLookup(page))]
    ELSE NoPage

\* the answers of the encyclopedia that a call can meet: none is read when the
\* title is empty or the entry is served from the cache
PagesMet(a) ==
    IF a[1] = <<>> \/ Fresh(cache.get_wiki_summary_and_image, CacheKey(a), clock)
    THEN {NoSuchPage} ELSE Pages

WikiSummaryCall ==
    /\ ncalls < MaxWikiCalls
    /\ \E a \in WikiArgs : \E page \in PagesMet(a) :
          LET r == get_wiki_summary_and_image(cache, a[1], a[2], clock, page)
          IN Finish("get_wiki_summary_and_image", a, r, "", Seen(r, a[1], page))

NextWiki == Tick \/ WikiSummaryCall

SpecWiki == Init /\ [][NextWiki]_vars

----------------------------------------------------------------------------
(* app.py: one run of the page script for a sidebar selection *)

NoCall == [cache |-> EmptyCache, result |-> NoneValue, origin |-> <<>>,
           requested |-> FALSE, sub |-> NoSub]

Skipped(c) == [NoCall EXCEPT !.cache = c]

Rendered(args, r) ==
    [rendered |-> TRUE, args |-> args, origin |-> r.origin, result |-> r.result]

\* a featured column: the article of the entity is read when its details carry
\* a title
ColumnContent(details, lang_code, now, page) ==
    IF details.result.kind = "dict" /\ details.result.page_title # <<>>
    THEN get_wiki_summary_and_image(details.cache, details.result.page_title,
                                    lang_code, now, page)
    ELSE Skipped(details.cache)

FeaturedColumn(details, wiki_content) ==
    [cache |-> wiki_content.cache, details |-> details,
     raised |-> Raised(wiki_content.result)]

\* what the script leaves behind, given the outcome of its four steps; an
\* uncaught exception ends the run there
RunPage(lang_code, region_info, col1, col2, on_this_day, timeline) ==
    LET region_q_code == region_info.q_code
        figure == Rendered(<<region_info.featured_figure, lang_code>>, col1.details)
        monument == Rendered(<<region_info.featured_monument, lang_code>>, col2.details)
    IN IF col1.raised
       THEN [cache |-> col1.cache,
             panels |-> [NoPanels EXCEPT !.figure = figure]]
       ELSE IF col2.raised
       THEN [cache |-> col2.cache,
             panels |-> [NoPanels EXCEPT !.figure = figure, !.monument = monument]]
       ELSE IF Raised(on_this_day.result)
       THEN [cache |-> on_this_day.cache,
             panels |-> [NoPanels EXCEPT !.figure = figure, !.monument = monument]]
       ELSE IF Raised(timeline.result)
       THEN [cache |-> timeline.cache,
             panels |-> [figure |-> figure, monument |-> monument,
                         on_this_day |-> Rendered(<<region_q_code, lang_code>>, on_this_day),
                         timeline |-> NotRendered]]
       ELSE [cache |-> timeline.cache,
             panels |-> [figure |-> figure, monument |-> monument,
                         on_this_day |-> Rendered(<<region_q_code, lang_code>>, on_this_day),
                         timeline |-> Rendered(<<region_q_code, lang_code>>, timeline)]]

\* What the two services hold while one run of the page lasts
AppSnapshots ==
    { [entity |-> [labels |-> {"en"}, descriptions |-> {"en"},
                   articles |-> [NoArticles EXCEPT !["en"] = <<"H", "a", "m", "p", "i">>]],
       events |-> {1, 2, 4}],
      [entity |-> [labels |-> {"en", "hi"}, descriptions |-> {"hi"},
                   articles |-> [NoArticles EXCEPT !["hi"] = <<"H", "a", "m", "p", "i">>]],
       events |-> {2, 3}] }

AppPages ==
    { [exists |-> TRUE, summary |-> <<"a", " ", "a">>, fullurl |-> "plain",
       thumbnail |-> "url", sections |-> "empty"],
      [exists |-> TRUE, summary |-> <<"a", " ", "a">>, fullurl |-> "plain",
       thumbnail |-> "raise", sections |-> "empty"] }

\* the user picks a language and a region; the script runs top to bottom, each
\* step on the cache the step before it left
Rerun ==
    /\ ncalls < MaxRuns
    /\ \E language \in LanguageNames, region \in RegionNames, net \in Network,
          wd \in AppSnapshots, page \in AppPages :
          LET lang_code == LANGUAGES[language]
              region_info == REGIONS[region]
          IN \E figure \in {get_entity_details(cache, region_info.featured_figure,
                                                  lang_code, clock, net, wd)} :
             \E figure_content \in {ColumnContent(figure, lang_code, clock, page)} :
             \E col1 \in {FeaturedColumn(figure, figure_content)} :
             \E monument \in {get_entity_details(col1.cache, region_info.featured_monument,
                                                    lang_code, clock, net, wd)} :
             \E monument_content \in {ColumnContent(monument, lang_code, clock, page)} :
             \E col2 \in {FeaturedColumn(monument, monument_content)} :
             \E on_this_day \in {get_on_this_day_events(col2.cache, region_info.q_code,
                                                         lang_code, clock, net, wd)} :
             \E timeline \in {get_timeline_events(on_this_day.cache, region_info.q_code,
                                                   lang_code, clock, net, wd)} :
                LET run == RunPage(lang_code, region_info, col1, col2, on_this_day, timeline)
                IN /\ selection' = [language |-> language, region |-> region]
                   /\ cache' = run.cache
                   /\ panels' = run.panels
    /\ ncalls' = ncalls + 1
    /\ UNCHANGED <<clock, called, fetched, last>>

NextApp == Tick \/ Rerun

SpecApp == Init /\ [][NextApp]_vars

----------------------------------------------------------------------------
(* Properties *)

KnowledgeGraphFetches ==
    {"get_entity_details", "get_on_this_day_events", "get_timeline_events"}

\* the event of the catalogue that carries a label
EventLabelled(label) ==
    CHOOSE i \in EventIds : \E l \in DOMAIN Events[i].label : Events[i].label[l] = label

MonthNumber(name) == CHOOSE m \in 1..12 : MonthNames[m] = name

\* the day a '%d %B %Y' string names, as a number that orders days
DayOrdinal(date) == date[3] * 10000 + MonthNumber(date[2]) * 100 + date[1]

SpacesUpTo(str, i) == Cardinality({j \in 1..i : str[j] = " "})

\* C1 as stated: a call whose arguments equal those of ANY earlier call that
\* returned less than TTL seconds ago returns that call's result and sends no
\* request, for the three fetches and for run_sparql_query; and a call with no
\* request for its arguments inside the window sends one.
C1_AnyEarlierCallInWindow ==
    last.fn \in KnowledgeGraphFetches =>
        /\ last.prevCall.t >= 0 /\ ~Raised(last.prevCall.result) =>
              last.result = last.prevCall.result /\ ~last.requested
        /\ last.sub.called /\ last.subPrevCall.t >= 0 =>
              last.sub.data = last.subPrevCall.result /\ ~last.sub.requested
        /\ last.prevFetch.t < 0 => last.requested

\* C1 amended: the window is counted from the call that fetched. A call whose
\* arguments equal those of an earlier call that sent a request and returned a
\* result less than TTL seconds ago returns the same result and sends no
\* request (run_sparql_query: the same data); a call made when no request for
\* its arguments was sent in the last TTL seconds sends a fresh one.
C1_WindowFromFetch ==
    last.fn \in KnowledgeGraphFetches =>
        /\ last.prevFetch.t >= 0 /\ ~Raised(last.prevFetch.result) =>
              last.result = last.prevFetch.result /\ ~last.requested
        /\ last.prevFetch.t < 0 => last.requested
        /\ last.sub.called /\ last.subPrevFetch.t >= 0 =>
              last.sub.data = last.subPrevFetch.result /\ ~last.sub.requested
        /\ last.sub.called /\ last.subPrevFetch.t < 0 => last.sub.requested

\* a cache hit some time after the fetch, and a re-fetch is possible later
C1_Witness ==
    /\ last.fn = "get_entity_details"
    /\ last.prevFetch.t >= 0
    /\ last.t > last.prevFetch.t
    /\ ~last.requested
    /\ last.result.kind = "dict"

\* C2: every list get_on_this_day_events returns, fresh or cached, holds only
\* events whose month and day are those of the day of the call.
C2_EventsOfToday ==
    last.fn = "get_on_this_day_events" /\ last.result.kind = "list" =>
        \A i \in 1..Len(last.result.items) :
            LET e == Events[EventLabelled(last.result.items[i].label)]
            IN e.date.month = last.today.month /\ e.date.day = last.today.day

\* C3: whatever the endpoint answers, the three fetches return a value and
\* never raise.
C3_NeverRaises ==
    last.fn \in KnowledgeGraphFetches => ~Raised(last.result)

\* C4: when the request fails at the transport level, get_entity_details
\* returns None and the two event fetches return an empty list.
C4_TransportFailureDefaults ==
    last.fn \in KnowledgeGraphFetches /\ last.requested /\ last.net = "down" =>
        last.result = IF last.fn = "get_entity_details" THEN NoneValue ELSE EmptyList

\* a failed request for an identifier of no registry entry
C4_Witness ==
    /\ last.fn = "get_timeline_events"
    /\ last.args[1] = "Q42"
    /\ last.requested
    /\ last.net = "down"
    /\ last.result = EmptyList

\* C6: in a record of get_entity_details, page_title is empty exactly when the
\* endpoint's row carries no article.
C6_EmptyTitleIffNoArticle ==
    last.fn = "get_entity_details" /\ last.sub.called /\ last.result.kind = "dict" =>
        (last.result.page_title = <<>>
            <=> "article" \notin DOMAIN last.sub.data.bindings[1])

\* C8: when the endpoint's answer carries no label of the entity in the
\* language asked for, get_entity_details returns None; and the label of every
\* record returned is the endpoint's label of that entity in that language.
C8_NoLabelNoRecord ==
    last.fn = "get_entity_details" =>
        /\ last.sub.called
              /\ ~(/\ last.sub.data.kind = "json"
                   /\ \E i \in 1..Len(last.sub.data.bindings) :
                        /\ "label" \in DOMAIN last.sub.data.bindings[i]
                        /\ last.sub.data.bindings[i].label
                               = LabelText[last.args[1]][last.args[2]])
              => last.result = NoneValue
        /\ last.result.kind = "dict" =>
              last.result.label = LabelText[last.args[1]][last.args[2]]

\* the endpoint was reached and answered no row
C8_Witness ==
    /\ last.fn = "get_entity_details"
    /\ last.requested
    /\ last.net = "up"
    /\ last.sub.data = [kind |-> "json", bindings |-> <<>>]
    /\ last.result = NoneValue

\* C9: the dates of the list get_timeline_events returns never decrease.
C9_TimelineNonDecreasing ==
    last.fn = "get_timeline_events" /\ last.result.kind = "list" =>
        \A i, j \in 1..Len(last.result.items) :
            i < j => DayOrdinal(last.result.items[i].date)
                        <= DayOrdinal(last.result.items[j].date)

\* a timeline of two events of different days
C9_Witness ==
    /\ last.fn = "get_timeline_events"
    /\ last.result.kind = "list"
    /\ Len(last.result.items) = 2
    /\ DayOrdinal(last.result.items[1].date) < DayOrdinal(last.result.items[2].date)

\* C5: for an existing page, a failure in the image lookup gives a record with
\* no image and the truncated summary; it does not reach the caller.
C5_ImageFailureDegrades ==
    last.fn = "get_wiki_summary_and_image" /\ last.page.exists
            /\ last.page.imageFailure =>
        /\ last.result.kind = "dict"
        /\ last.result.image_url = NoneValue
        /\ last.result.summary = TruncateSummary(last.page.summary)

\* C7: a summary of more than WordCap words comes back cut before the space
\* that ends its WordCap-th word, with '...' appended; a summary of WordCap
\* words or fewer comes back character for character.
C7_SummaryTruncation ==
    last.fn = "get_wiki_summary_and_image" /\ last.page.exists
            /\ last.result.kind = "dict" =>
        LET str == last.page.summary
        IN IF SpacesUpTo(str, Len(str)) >= WordCap
           THEN \E p \in 1..Len(str) :
                    /\ str[p] = " "
                    /\ SpacesUpTo(str, p) = WordCap
                    /\ last.result.summary = SubSeq(str, 1, p - 1) \o Marker
           ELSE last.result.summary = str

\* a summary over the cap was cut and marked
C7_Witness ==
    /\ last.fn = "get_wiki_summary_and_image"
    /\ last.page.exists
    /\ last.result.kind = "dict"
    /\ SpacesUpTo(last.page.summary, Len(last.page.summary)) >= WordCap
    /\ Len(last.result.summary) < Len(last.page.summary) + Len(Marker)

PanelNames == {"figure", "monument", "on_this_day", "timeline"}

\* the arguments the current selection gives a panel's fetch
SelectedArgs(name) ==
    LET region_info == REGIONS[selection.region]
        code == CASE name = "figure"   -> region_info.featured_figure
                  [] name = "monument" -> region_info.featured_monument
                  [] OTHER             -> region_info.q_code
    IN <<code, LANGUAGES[selection.language]>>

\* C10: every result a run of the page renders was computed by a fetch whose
\* arguments are the identifiers and the language code of the selection of
\* that run.
C10_RenderedForSelection ==
    \A name \in PanelNames :
        panels[name].rendered => panels[name].origin = SelectedArgs(name)

\* a run in Hindi renders a timeline while the cache still serves the English one
C10_Witness ==
    /\ selection.language = "Hindi"
    /\ panels.timeline.rendered
    /\ Len(panels.timeline.result.items) > 0
    /\ <<REGIONS[selection.region].q_code, "en">> \in DOMAIN cache.get_timeline_events
    /\ Fresh(cache.get_timeline_events, <<REGIONS[selection.region].q_code, "en">>, clock)

====
